---- MODULE Spec2Model ----
(***************************************************************************)
(* The PlinkoGame ledger contract (backend/contracts/PlinkoGame.sol): the  *)
(* per-account record of turns, check-ins and games played, the registry   *)
(* of player addresses, the owner and the contract balance.  Every         *)
(* external function of the contract is one action.  A call whose require  *)
(* fails reverts: the step records the failed call and leaves the ledger   *)
(* as it was.  The variable prev holds the ledger as it was before the     *)
(* last call, so that a function's effect is a predicate on one state.     *)
(***************************************************************************)
EXTENDS Integers, Sequences, FiniteSets, TLC

\* ------------------------------------------------------------ constants
\* Amounts of ether are counted in gwei (1 gwei = 10^9 wei): 0.001 ether is
\* 10^6 gwei.
TURN_PRICE == 1000000
DAILY_FREE_TURNS == 3
SECONDS_PER_DAY == 86400

\* -------------------------------------------------------------- bounds
\* Timestamp of the block that deploys the contract.
StartTime == 1700000000
\* Turns are granted (by check-in or purchase) while the turns ever granted to
\* all accounts together stay <= MaxGranted (Spec, SpecAdmin, SpecQueries) or
\* <= MaxGrantedGame (SpecGame, which leaves dropBall and the owner's
\* functions out and so can go further).
MaxGranted == 3
MaxGrantedGame == 7
\* dropBall is explored while the plaintext totals of all accounts together
\* stay <= MaxScoreSum.
MaxScoreSum == 125
\* The leaderboard is computed for players with gamesPlayed in 0..MaxPlayed.
MaxPlayed == 2
\* Date.now() when the page is loaded, in milliseconds since the client's epoch.
PageLoadTime == 100000
\* The client is explored for MaxAttempts activations of the Drop Ball button
\* while the ledger has granted at most MaxClientGranted turns (SpecClient);
\* with the browser's clock advancing MaxTicks times, for MaxTimedAttempts
\* activations and MaxTimedGranted turns (SpecSession).
MaxAttempts == 3
MaxClientGranted == 3
MaxTimedAttempts == 2
MaxTimedGranted == 3
MaxTicks == 2

\* The fresh nonces validated after usedNonces was emptied.
MaxAfterClear == 2

\* The addresses (the signers of the test suite), the zero address and the
\* contract's own address.  The accounts in Callers send the transactions.
Accounts == {"deployer", "alice", "bob", "charlie"}
Callers == {"deployer", "alice"}
ZeroAddress == "0x0"
ThisContract == "PlinkoGame"

\* Plaintexts of the encrypted scores sent to dropBall.
Scores == {50, 75}

\* The inputs of dropBall: a score with a proof FHE.fromExternal accepts, and
\* one with a proof it refuses.
DropInputs == {<<s, TRUE>> : s \in Scores} \cup {<<50, FALSE>>}

\* The addresses the views are asked about: one that plays and one that
\* never calls the contract.
QueryArgs == {"alice", "charlie"}

\* turnCount arguments of buyTurns.
Counts == {0, 1, 2}

\* Block timestamps: the deployment block's, and those one second less than a
\* day and exactly a day later.
Times ==
    {StartTime, StartTime + SECONDS_PER_DAY - 1, StartTime + SECONDS_PER_DAY}

VARIABLES
    players,          \* mapping(address => Player)
    playerAddresses,  \* address[]
    owner,            \* address
    balance,          \* address(this).balance, in gwei
    now,              \* block.timestamp of the current block
    acl,              \* who may decrypt each account's totalScore handle
    interacted,       \* history: accounts with a successful check-in or purchase
    received,         \* the ether each account was sent by the contract, in gwei
    checkIns,         \* history: each account's successful check-ins
    bought,           \* history: the turns each account bought
    submitted,        \* history: the sum of the scores of each account's dropBalls
    events,           \* the events emitted by the last transaction
    last,             \* the last call: function, caller, arguments, outcome
    prev,             \* the ledger before the last call
    asked,            \* the last query before this call, if nothing was written since
    isConnected,      \* page: a wallet is connected
    hook,             \* useContract: contract, isInitialized, isLoading, ...
    security,         \* useSecurity and its SecurityManager
    canvas,           \* PlinkoCanvas: ball, isPlaying, currentGameId
    clock,            \* Date.now() in the browser, in milliseconds
    calls,            \* the client's asynchronous calls that have not returned
    done,             \* the client call that returned last
    audit,            \* history: admissions, refusals, balls dropped, results
    usedNonces,       \* SignatureValidator.usedNonces: a run of consecutive
                      \* nonces first..last, and the other nonces
    accepted,         \* history: validateNonce has accepted the nonces
                      \* 1..accepted
    validated         \* the last validateNonce call: nonce, result, and
                      \* whether the nonce had been accepted before

vars ==
    <<players, playerAddresses, owner, balance, now, acl, interacted, received,
      checkIns, bought, submitted, events, last, prev, asked,
      isConnected, hook, security, canvas, clock, calls, done, audit,
      usedNonces, accepted, validated>>

\* The state of the ledger and of one browser client of it.
ledgerVars ==
    <<players, playerAddresses, owner, balance, now, acl, interacted, received,
      checkIns, bought, submitted, events, last, prev, asked>>

clientVars ==
    <<isConnected, hook, security, canvas, clock, calls, done, audit,
      usedNonces, accepted, validated>>

\* The contract's storage and balance, the ACL of its ciphertexts, what the
\* contract has paid out and the history of the accounts' successful calls.
Ledger ==
    [players |-> players, playerAddresses |-> playerAddresses, owner |-> owner,
     balance |-> balance, acl |-> acl, interacted |-> interacted,
     received |-> received, checkIns |-> checkIns, bought |-> bought,
     submitted |-> submitted]

RECURSIVE SumOver(_, _)
SumOver(S, f) ==
    IF S = {} THEN 0
    ELSE LET x == CHOOSE y \in S : TRUE IN f[x] + SumOver(S \ {x}, f)

\* The turns ever granted to all accounts: those still available and those played.
Granted ==
    SumOver(Callers, [a \in Callers |->
                        players[a].availableTurns + players[a].gamesPlayed])

\* The plaintext totals of all accounts together.
ScoreSum == SumOver(Callers, [a \in Callers |-> players[a].totalScore])

\* A zero-valued Player, what a mapping holds for an address never written.
\* totalScore is the plaintext behind the euint32 handle (0 when the handle is
\* uninitialised).
Player ==
    [totalScore |-> 0, lastCheckInTime |-> 0, availableTurns |-> 0, gamesPlayed |-> 0]

Call(op, caller, args, ok, ret) ==
    [op |-> op, caller |-> caller, args |-> args, ok |-> ok, ret |-> ret]

\* The view functions.
Queries ==
    {"getPlayerScore", "getPlayerInfo", "getLeaderboard", "getTotalPlayers",
     "canCheckIn", "getBalance"}

\* No query has been made since the ledger was last written.
NoQuery == [q |-> Call("none", ZeroAddress, <<>>, TRUE, <<>>), at |-> 0]

\* After a step that writes nothing: the last query made and the block time
\* it was made at.
Remembered == IF last.op \in Queries THEN [q |-> last, at |-> now] ELSE asked

\* A failed require: the transaction reverts, nothing is written or emitted.
Revert(op, caller, args, reason) ==
    /\ last' = Call(op, caller, args, FALSE, <<reason>>)
    /\ prev' = Ledger
    /\ asked' = Remembered
    /\ events' = <<>>
    /\ UNCHANGED <<players, playerAddresses, owner, balance, now, acl, interacted,
                   received, checkIns, bought, submitted>>

\* The account of the connected wallet.
Signer == "alice"

\* null, as returned by playGame and held by currentGameId.
Null == "null"

\* undefined: what `await onPlayGame?.()` gives without an onPlayGame.
Undefined == "undefined"

\* A nullable value: null, or the value it holds.
None == <<>>
Some(value) == <<value>>

\* No call in a slot of the client.
\* new Set<string>() of nonces.
NoNonces == [first |-> 1, last |-> 0, others |-> {}]

Idle == [fn |-> "none", pc |-> "idle", arg |-> 0]

\* The slots for the client's calls that are awaiting something: two calls
\* may overlap.
CallIds == {1, 2}

\* The page after loading: the initial values of the useState hooks, a new
\* SecurityManager and the empty static set of used nonces.
PageLoaded ==
    /\ isConnected = FALSE
    /\ hook = [contract |-> FALSE, isInitialized |-> FALSE, isLoading |-> FALSE,
               fallbackMode |-> FALSE, playerInfo |-> None]
    /\ security = [isAuthenticated |-> FALSE, sessions |-> [a \in {} |-> 0],
                   blockedAddresses |-> {}]
    /\ canvas = [ball |-> FALSE, isPlaying |-> FALSE, currentGameId |-> Null]
    /\ clock = PageLoadTime
    /\ calls = [i \in CallIds |-> Idle]
    /\ done = [fn |-> "none", ret |-> Null, confirmed |-> FALSE,
               setLoading |-> FALSE, wasLoading |-> FALSE, isLoading |-> FALSE]
    /\ audit = [attempts |-> 0, admitted |-> <<>>, dropped |-> Undefined,
                reported |-> Undefined, refused |-> Undefined]
    /\ usedNonces = NoNonces
    /\ accepted = 0
    /\ validated = [nonce |-> 0, ret |-> FALSE, replay |-> FALSE]

\* constructor: owner = msg.sender
Init ==
    /\ players = [a \in Accounts |-> Player]
    /\ playerAddresses = <<>>
    /\ owner = "deployer"
    /\ balance = 0
    /\ now = StartTime
    /\ acl = [a \in Accounts |-> {}]
    /\ interacted = {}
    /\ received = [a \in Accounts |-> 0]
    /\ checkIns = [a \in Accounts |-> 0]
    /\ bought = [a \in Accounts |-> 0]
    /\ submitted = [a \in Accounts |-> 0]
    /\ events = <<>>
    /\ last = Call("constructor", "deployer", <<>>, TRUE, <<>>)
    /\ prev = Ledger
    /\ asked = NoQuery
    /\ PageLoaded

\* A later block is mined.
MineBlock(t) ==
    /\ t > now
    /\ now' = t
    /\ last' = Call("mine", ZeroAddress, <<>>, TRUE, <<>>)
    /\ prev' = Ledger
    /\ asked' = Remembered
    /\ events' = <<>>
    /\ UNCHANGED <<players, playerAddresses, owner, balance, acl, interacted,
                   received, checkIns, bought, submitted>>

\* dailyCheckIn with the cooldown one second short.
dailyCheckIn_early(sender) ==
    LET player == players[sender] IN
    IF ~(now >= player.lastCheckInTime + SECONDS_PER_DAY - 1)
    THEN Revert("dailyCheckIn", sender, <<>>, "Already checked in today")
    ELSE /\ playerAddresses' =
                IF player.lastCheckInTime = 0
                THEN Append(playerAddresses, sender)
                ELSE playerAddresses
         /\ players' = [players EXCEPT
                ![sender].availableTurns = @ + DAILY_FREE_TURNS,
                ![sender].lastCheckInTime = now]
         /\ events' = <<[name |-> "CheckedIn", player |-> sender,
                         turnsGranted |-> DAILY_FREE_TURNS, timestamp |-> now]>>
         /\ interacted' = interacted \cup {sender}
         /\ last' = Call("dailyCheckIn", sender, <<>>, TRUE, <<>>)
         /\ prev' = Ledger
         /\ asked' = NoQuery
         /\ checkIns' = [checkIns EXCEPT ![sender] = @ + 1]
         /\ UNCHANGED <<owner, balance, now, acl,
                        received, bought, submitted>>

\* dailyCheckIn that sets availableTurns to the grant instead of adding it.
dailyCheckIn_assign(sender) ==
    LET player == players[sender] IN
    IF ~(now >= player.lastCheckInTime + SECONDS_PER_DAY)
    THEN Revert("dailyCheckIn", sender, <<>>, "Already checked in today")
    ELSE /\ playerAddresses' =
                IF player.lastCheckInTime = 0
                THEN Append(playerAddresses, sender)
                ELSE playerAddresses
         /\ players' = [players EXCEPT
                ![sender].availableTurns = DAILY_FREE_TURNS,
                ![sender].lastCheckInTime = now]
         /\ events' = <<[name |-> "CheckedIn", player |-> sender,
                         turnsGranted |-> DAILY_FREE_TURNS, timestamp |-> now]>>
         /\ interacted' = interacted \cup {sender}
         /\ last' = Call("dailyCheckIn", sender, <<>>, TRUE, <<>>)
         /\ prev' = Ledger
         /\ asked' = NoQuery
         /\ checkIns' = [checkIns EXCEPT ![sender] = @ + 1]
         /\ UNCHANGED <<owner, balance, now, acl,
                        received, bought, submitted>>

\* dailyCheckIn that takes a purchase-only player for a first-time player.
dailyCheckIn_sentinel(sender) ==
    LET player == players[sender] IN
    IF ~(now >= player.lastCheckInTime + SECONDS_PER_DAY)
    THEN Revert("dailyCheckIn", sender, <<>>, "Already checked in today")
    ELSE /\ playerAddresses' =
                IF player.lastCheckInTime <= 1
                THEN Append(playerAddresses, sender)
                ELSE playerAddresses
         /\ players' = [players EXCEPT
                ![sender].availableTurns = @ + DAILY_FREE_TURNS,
                ![sender].lastCheckInTime = now]
         /\ events' = <<[name |-> "CheckedIn", player |-> sender,
                         turnsGranted |-> DAILY_FREE_TURNS, timestamp |-> now]>>
         /\ interacted' = interacted \cup {sender}
         /\ last' = Call("dailyCheckIn", sender, <<>>, TRUE, <<>>)
         /\ prev' = Ledger
         /\ asked' = NoQuery
         /\ checkIns' = [checkIns EXCEPT ![sender] = @ + 1]
         /\ UNCHANGED <<owner, balance, now, acl,
                        received, bought, submitted>>

\* dailyCheckIn that keeps one cooldown for the whole contract: it stamps
\* the time of the check-in on every account.
dailyCheckIn_shared(sender) ==
    LET player == players[sender] IN
    IF ~(now >= player.lastCheckInTime + SECONDS_PER_DAY)
    THEN Revert("dailyCheckIn", sender, <<>>, "Already checked in today")
    ELSE /\ playerAddresses' =
                IF player.lastCheckInTime = 0
                THEN Append(playerAddresses, sender)
                ELSE playerAddresses
         /\ players' = [a \in Accounts |->
                IF a = sender
                THEN [players[a] EXCEPT
                        !.availableTurns = @ + DAILY_FREE_TURNS,
                        !.lastCheckInTime = now]
                ELSE [players[a] EXCEPT !.lastCheckInTime = now]]
         /\ events' = <<[name |-> "CheckedIn", player |-> sender,
                         turnsGranted |-> DAILY_FREE_TURNS, timestamp |-> now]>>
         /\ interacted' = interacted \cup {sender}
         /\ last' = Call("dailyCheckIn", sender, <<>>, TRUE, <<>>)
         /\ prev' = Ledger
         /\ asked' = NoQuery
         /\ checkIns' = [checkIns EXCEPT ![sender] = @ + 1]
         /\ UNCHANGED <<owner, balance, now, acl,
                        received, bought, submitted>>

\* dailyCheckIn that takes the purchase mark for a check-in made today.
dailyCheckIn_marked(sender) ==
    LET player == players[sender] IN
    IF ~(now >= player.lastCheckInTime + SECONDS_PER_DAY /\ player.lastCheckInTime # 1)
    THEN Revert("dailyCheckIn", sender, <<>>, "Already checked in today")
    ELSE /\ playerAddresses' =
                IF player.lastCheckInTime = 0
                THEN Append(playerAddresses, sender)
                ELSE playerAddresses
         /\ players' = [players EXCEPT
                ![sender].availableTurns = @ + DAILY_FREE_TURNS,
                ![sender].lastCheckInTime = now]
         /\ events' = <<[name |-> "CheckedIn", player |-> sender,
                         turnsGranted |-> DAILY_FREE_TURNS, timestamp |-> now]>>
         /\ interacted' = interacted \cup {sender}
         /\ last' = Call("dailyCheckIn", sender, <<>>, TRUE, <<>>)
         /\ prev' = Ledger
         /\ asked' = NoQuery
         /\ checkIns' = [checkIns EXCEPT ![sender] = @ + 1]
         /\ UNCHANGED <<owner, balance, now, acl,
                        received, bought, submitted>>

dailyCheckIn(sender) ==
    LET player == players[sender] IN
    IF ~(now >= player.lastCheckInTime + SECONDS_PER_DAY)
    THEN Revert("dailyCheckIn", sender, <<>>, "Already checked in today")
    ELSE /\ playerAddresses' =
                IF player.lastCheckInTime = 0
                THEN Append(playerAddresses, sender)
                ELSE playerAddresses
         /\ players' = [players EXCEPT
                ![sender].availableTurns = @ + DAILY_FREE_TURNS,
                ![sender].lastCheckInTime = now]
         /\ events' = <<[name |-> "CheckedIn", player |-> sender,
                         turnsGranted |-> DAILY_FREE_TURNS, timestamp |-> now]>>
         /\ interacted' = interacted \cup {sender}
         /\ last' = Call("dailyCheckIn", sender, <<>>, TRUE, <<>>)
         /\ prev' = Ledger
         /\ asked' = NoQuery
         /\ checkIns' = [checkIns EXCEPT ![sender] = @ + 1]
         /\ UNCHANGED <<owner, balance, now, acl,
                        received, bought, submitted>>

\* msg.value sent with buyTurns(turnCount): the exact price and, for a single
\* turn, one gwei less and one gwei more.
Payments(turnCount) ==
    {turnCount * TURN_PRICE} \cup
    (IF turnCount = 1 THEN {TURN_PRICE - 1, TURN_PRICE + 1} ELSE {})

\* buyTurns that marks the player as initialised on every purchase.
buyTurns_remark(sender, turnCount, value) ==
    LET player == players[sender] IN
    IF ~(turnCount > 0)
    THEN Revert("buyTurns", sender, <<turnCount, value>>, "Must buy at least 1 turn")
    ELSE IF ~(value = turnCount * TURN_PRICE)
    THEN Revert("buyTurns", sender, <<turnCount, value>>, "Incorrect payment amount")
    ELSE /\ playerAddresses' =
                IF player.lastCheckInTime = 0
                THEN Append(playerAddresses, sender)
                ELSE playerAddresses
         /\ players' = [players EXCEPT
                ![sender].lastCheckInTime = 1,
                ![sender].availableTurns = @ + turnCount]
         /\ balance' = balance + value
         /\ events' = <<[name |-> "TurnsPurchased", player |-> sender,
                         turnsBought |-> turnCount, amountPaid |-> value]>>
         /\ interacted' = interacted \cup {sender}
         /\ last' = Call("buyTurns", sender, <<turnCount, value>>, TRUE, <<>>)
         /\ prev' = Ledger
         /\ asked' = NoQuery
         /\ bought' = [bought EXCEPT ![sender] = @ + turnCount]
         /\ UNCHANGED <<owner, now, acl,
                        received, checkIns, submitted>>

\* buyTurns that credits one turn whatever turnCount is.
buyTurns_addsOne(sender, turnCount, value) ==
    LET player == players[sender] IN
    IF ~(turnCount > 0)
    THEN Revert("buyTurns", sender, <<turnCount, value>>, "Must buy at least 1 turn")
    ELSE IF ~(value = turnCount * TURN_PRICE)
    THEN Revert("buyTurns", sender, <<turnCount, value>>, "Incorrect payment amount")
    ELSE /\ playerAddresses' =
                IF player.lastCheckInTime = 0
                THEN Append(playerAddresses, sender)
                ELSE playerAddresses
         /\ players' = [players EXCEPT
                ![sender].lastCheckInTime = IF @ = 0 THEN 1 ELSE @,
                ![sender].availableTurns = @ + 1]
         /\ balance' = balance + value
         /\ events' = <<[name |-> "TurnsPurchased", player |-> sender,
                         turnsBought |-> turnCount, amountPaid |-> value]>>
         /\ interacted' = interacted \cup {sender}
         /\ last' = Call("buyTurns", sender, <<turnCount, value>>, TRUE, <<>>)
         /\ prev' = Ledger
         /\ asked' = NoQuery
         /\ bought' = [bought EXCEPT ![sender] = @ + turnCount]
         /\ UNCHANGED <<owner, now, acl,
                        received, checkIns, submitted>>

\* buyTurns that accepts any payment that covers the price.
buyTurns_overpaid(sender, turnCount, value) ==
    LET player == players[sender] IN
    IF ~(turnCount > 0)
    THEN Revert("buyTurns", sender, <<turnCount, value>>, "Must buy at least 1 turn")
    ELSE IF ~(value >= turnCount * TURN_PRICE)
    THEN Revert("buyTurns", sender, <<turnCount, value>>, "Incorrect payment amount")
    ELSE /\ playerAddresses' =
                IF player.lastCheckInTime = 0
                THEN Append(playerAddresses, sender)
                ELSE playerAddresses
         /\ players' = [players EXCEPT
                ![sender].lastCheckInTime = IF @ = 0 THEN 1 ELSE @,
                ![sender].availableTurns = @ + turnCount]
         /\ balance' = balance + value
         /\ events' = <<[name |-> "TurnsPurchased", player |-> sender,
                         turnsBought |-> turnCount, amountPaid |-> value]>>
         /\ interacted' = interacted \cup {sender}
         /\ last' = Call("buyTurns", sender, <<turnCount, value>>, TRUE, <<>>)
         /\ prev' = Ledger
         /\ asked' = NoQuery
         /\ bought' = [bought EXCEPT ![sender] = @ + turnCount]
         /\ UNCHANGED <<owner, now, acl,
                        received, checkIns, submitted>>

\* buyTurns that forgets to mark a first-time buyer as initialised.
buyTurns_unmarked(sender, turnCount, value) ==
    LET player == players[sender] IN
    IF ~(turnCount > 0)
    THEN Revert("buyTurns", sender, <<turnCount, value>>, "Must buy at least 1 turn")
    ELSE IF ~(value = turnCount * TURN_PRICE)
    THEN Revert("buyTurns", sender, <<turnCount, value>>, "Incorrect payment amount")
    ELSE /\ playerAddresses' =
                IF player.lastCheckInTime = 0
                THEN Append(playerAddresses, sender)
                ELSE playerAddresses
         /\ players' = [players EXCEPT
                ![sender].availableTurns = @ + turnCount]
         /\ balance' = balance + value
         /\ events' = <<[name |-> "TurnsPurchased", player |-> sender,
                         turnsBought |-> turnCount, amountPaid |-> value]>>
         /\ interacted' = interacted \cup {sender}
         /\ last' = Call("buyTurns", sender, <<turnCount, value>>, TRUE, <<>>)
         /\ prev' = Ledger
         /\ asked' = NoQuery
         /\ bought' = [bought EXCEPT ![sender] = @ + turnCount]
         /\ UNCHANGED <<owner, now, acl,
                        received, checkIns, submitted>>

\* buyTurns that stamps the purchase time as the player's last check-in.
buyTurns_stamp(sender, turnCount, value) ==
    LET player == players[sender] IN
    IF ~(turnCount > 0)
    THEN Revert("buyTurns", sender, <<turnCount, value>>, "Must buy at least 1 turn")
    ELSE IF ~(value = turnCount * TURN_PRICE)
    THEN Revert("buyTurns", sender, <<turnCount, value>>, "Incorrect payment amount")
    ELSE /\ playerAddresses' =
                IF player.lastCheckInTime = 0
                THEN Append(playerAddresses, sender)
                ELSE playerAddresses
         /\ players' = [players EXCEPT
                ![sender].lastCheckInTime = now,
                ![sender].availableTurns = @ + turnCount]
         /\ balance' = balance + value
         /\ events' = <<[name |-> "TurnsPurchased", player |-> sender,
                         turnsBought |-> turnCount, amountPaid |-> value]>>
         /\ interacted' = interacted \cup {sender}
         /\ last' = Call("buyTurns", sender, <<turnCount, value>>, TRUE, <<>>)
         /\ prev' = Ledger
         /\ asked' = NoQuery
         /\ bought' = [bought EXCEPT ![sender] = @ + turnCount]
         /\ UNCHANGED <<owner, now, acl,
                        received, checkIns, submitted>>

\* buyTurns that puts a first-time buyer at the head of the registry.
buyTurns_prepend(sender, turnCount, value) ==
    LET player == players[sender] IN
    IF ~(turnCount > 0)
    THEN Revert("buyTurns", sender, <<turnCount, value>>, "Must buy at least 1 turn")
    ELSE IF ~(value = turnCount * TURN_PRICE)
    THEN Revert("buyTurns", sender, <<turnCount, value>>, "Incorrect payment amount")
    ELSE /\ playerAddresses' =
                IF player.lastCheckInTime = 0
                THEN <<sender>> \o playerAddresses
                ELSE playerAddresses
         /\ players' = [players EXCEPT
                ![sender].lastCheckInTime = IF @ = 0 THEN 1 ELSE @,
                ![sender].availableTurns = @ + turnCount]
         /\ balance' = balance + value
         /\ events' = <<[name |-> "TurnsPurchased", player |-> sender,
                         turnsBought |-> turnCount, amountPaid |-> value]>>
         /\ interacted' = interacted \cup {sender}
         /\ last' = Call("buyTurns", sender, <<turnCount, value>>, TRUE, <<>>)
         /\ prev' = Ledger
         /\ asked' = NoQuery
         /\ bought' = [bought EXCEPT ![sender] = @ + turnCount]
         /\ UNCHANGED <<owner, now, acl,
                        received, checkIns, submitted>>

buyTurns(sender, turnCount, value) ==
    LET player == players[sender] IN
    IF ~(turnCount > 0)
    THEN Revert("buyTurns", sender, <<turnCount, value>>, "Must buy at least 1 turn")
    ELSE IF ~(value = turnCount * TURN_PRICE)
    THEN Revert("buyTurns", sender, <<turnCount, value>>, "Incorrect payment amount")
    ELSE /\ playerAddresses' =
                IF player.lastCheckInTime = 0
                THEN Append(playerAddresses, sender)
                ELSE playerAddresses
         /\ players' = [players EXCEPT
                ![sender].lastCheckInTime = IF @ = 0 THEN 1 ELSE @,
                ![sender].availableTurns = @ + turnCount]
         /\ balance' = balance + value
         /\ events' = <<[name |-> "TurnsPurchased", player |-> sender,
                         turnsBought |-> turnCount, amountPaid |-> value]>>
         /\ interacted' = interacted \cup {sender}
         /\ last' = Call("buyTurns", sender, <<turnCount, value>>, TRUE, <<>>)
         /\ prev' = Ledger
         /\ asked' = NoQuery
         /\ bought' = [bought EXCEPT ![sender] = @ + turnCount]
         /\ UNCHANGED <<owner, now, acl,
                        received, checkIns, submitted>>

\* FHE.add on euint32: the sum of the plaintexts (an uninitialised handle
\* counts as 0).  With the totals bounded by MaxScoreSum the sum stays far
\* below 2^32, where the homomorphic addition would wrap.
FHE_add(a, b) == a + b

\* dropBall that forgets gamesPlayed++.
dropBall_uncounted(sender, score, proofOk) ==
    LET player == players[sender] IN
    IF ~(player.availableTurns > 0)
    THEN Revert("dropBall", sender, <<score, proofOk>>, "No turns available")
    ELSE IF ~proofOk
    THEN Revert("dropBall", sender, <<score, proofOk>>, "Invalid input proof")
    ELSE /\ players' = [players EXCEPT
                ![sender].totalScore = FHE_add(@, score),
                ![sender].availableTurns = @ - 1]
         /\ acl' = [acl EXCEPT ![sender] = {ThisContract, sender}]
         /\ events' = <<[name |-> "GamePlayed", player |-> sender,
                         turnsRemaining |-> players'[sender].availableTurns],
                        [name |-> "ScoreUpdated", player |-> sender,
                         gamesPlayed |-> players'[sender].gamesPlayed]>>
         /\ last' = Call("dropBall", sender, <<score, proofOk>>, TRUE, <<>>)
         /\ prev' = Ledger
         /\ asked' = NoQuery
         /\ submitted' = [submitted EXCEPT ![sender] = @ + score]
         /\ UNCHANGED <<playerAddresses, owner, balance, now, interacted,
                        received, checkIns, bought>>

\* dropBall that stores the score of this play as the total.
dropBall_overwrite(sender, score, proofOk) ==
    LET player == players[sender] IN
    IF ~(player.availableTurns > 0)
    THEN Revert("dropBall", sender, <<score, proofOk>>, "No turns available")
    ELSE IF ~proofOk
    THEN Revert("dropBall", sender, <<score, proofOk>>, "Invalid input proof")
    ELSE /\ players' = [players EXCEPT
                ![sender].totalScore = score,
                ![sender].availableTurns = @ - 1,
                ![sender].gamesPlayed = @ + 1]
         /\ acl' = [acl EXCEPT ![sender] = {ThisContract, sender}]
         /\ events' = <<[name |-> "GamePlayed", player |-> sender,
                         turnsRemaining |-> players'[sender].availableTurns],
                        [name |-> "ScoreUpdated", player |-> sender,
                         gamesPlayed |-> players'[sender].gamesPlayed]>>
         /\ last' = Call("dropBall", sender, <<score, proofOk>>, TRUE, <<>>)
         /\ prev' = Ledger
         /\ asked' = NoQuery
         /\ submitted' = [submitted EXCEPT ![sender] = @ + score]
         /\ UNCHANGED <<playerAddresses, owner, balance, now, interacted,
                        received, checkIns, bought>>

\* dropBall that also lets the contract's owner decrypt the total.
dropBall_allowOwner(sender, score, proofOk) ==
    LET player == players[sender] IN
    IF ~(player.availableTurns > 0)
    THEN Revert("dropBall", sender, <<score, proofOk>>, "No turns available")
    ELSE IF ~proofOk
    THEN Revert("dropBall", sender, <<score, proofOk>>, "Invalid input proof")
    ELSE /\ players' = [players EXCEPT
                ![sender].totalScore = FHE_add(@, score),
                ![sender].availableTurns = @ - 1,
                ![sender].gamesPlayed = @ + 1]
         /\ acl' = [acl EXCEPT ![sender] = {ThisContract, sender, owner}]
         /\ events' = <<[name |-> "GamePlayed", player |-> sender,
                         turnsRemaining |-> players'[sender].availableTurns],
                        [name |-> "ScoreUpdated", player |-> sender,
                         gamesPlayed |-> players'[sender].gamesPlayed]>>
         /\ last' = Call("dropBall", sender, <<score, proofOk>>, TRUE, <<>>)
         /\ prev' = Ledger
         /\ asked' = NoQuery
         /\ submitted' = [submitted EXCEPT ![sender] = @ + score]
         /\ UNCHANGED <<playerAddresses, owner, balance, now, interacted,
                        received, checkIns, bought>>

\* dropBall(encryptedScore, inputProof): score is the plaintext of
\* encryptedScore, proofOk whether FHE.fromExternal accepts inputProof.
dropBall(sender, score, proofOk) ==
    LET player == players[sender] IN
    IF ~(player.availableTurns > 0)
    THEN Revert("dropBall", sender, <<score, proofOk>>, "No turns available")
    ELSE IF ~proofOk
    THEN Revert("dropBall", sender, <<score, proofOk>>, "Invalid input proof")
    ELSE /\ players' = [players EXCEPT
                ![sender].totalScore = FHE_add(@, score),
                ![sender].availableTurns = @ - 1,
                ![sender].gamesPlayed = @ + 1]
         /\ acl' = [acl EXCEPT ![sender] = {ThisContract, sender}]
         /\ events' = <<[name |-> "GamePlayed", player |-> sender,
                         turnsRemaining |-> players'[sender].availableTurns],
                        [name |-> "ScoreUpdated", player |-> sender,
                         gamesPlayed |-> players'[sender].gamesPlayed]>>
         /\ last' = Call("dropBall", sender, <<score, proofOk>>, TRUE, <<>>)
         /\ prev' = Ledger
         /\ asked' = NoQuery
         /\ submitted' = [submitted EXCEPT ![sender] = @ + score]
         /\ UNCHANGED <<playerAddresses, owner, balance, now, interacted,
                        received, checkIns, bought>>

\* playTurn that clamps at zero turns instead of requiring a turn.
playTurn_clamped(sender) ==
    LET player == players[sender] IN
    /\ players' = [players EXCEPT
           ![sender].availableTurns = IF @ > 0 THEN @ - 1 ELSE 0,
           ![sender].gamesPlayed = @ + 1]
    /\ events' = <<[name |-> "GamePlayed", player |-> sender,
                    turnsRemaining |-> players'[sender].availableTurns],
                   [name |-> "ScoreUpdated", player |-> sender,
                    gamesPlayed |-> players'[sender].gamesPlayed]>>
    /\ last' = Call("playTurn", sender, <<>>, TRUE, <<>>)
    /\ prev' = Ledger
    /\ asked' = NoQuery
    /\ UNCHANGED <<playerAddresses, owner, balance, now, acl, interacted,
                   received, checkIns, bought, submitted>>

\* playTurn that counts the game and leaves the turn with the player.
playTurn_free(sender) ==
    LET player == players[sender] IN
    IF ~(player.availableTurns > 0)
    THEN Revert("playTurn", sender, <<>>, "No turns available")
    ELSE /\ players' = [players EXCEPT ![sender].gamesPlayed = @ + 1]
         /\ events' = <<[name |-> "GamePlayed", player |-> sender,
                         turnsRemaining |-> players'[sender].availableTurns],
                        [name |-> "ScoreUpdated", player |-> sender,
                         gamesPlayed |-> players'[sender].gamesPlayed]>>
         /\ last' = Call("playTurn", sender, <<>>, TRUE, <<>>)
         /\ prev' = Ledger
         /\ asked' = NoQuery
         /\ UNCHANGED <<playerAddresses, owner, balance, now, acl, interacted,
                        received, checkIns, bought, submitted>>

\* playTurn that emits GamePlayed with the turns the caller had before the play.
playTurn_staleEvent(sender) ==
    LET player == players[sender] IN
    IF ~(player.availableTurns > 0)
    THEN Revert("playTurn", sender, <<>>, "No turns available")
    ELSE /\ players' = [players EXCEPT
                ![sender].availableTurns = @ - 1,
                ![sender].gamesPlayed = @ + 1]
         /\ events' = <<[name |-> "GamePlayed", player |-> sender,
                         turnsRemaining |-> player.availableTurns],
                        [name |-> "ScoreUpdated", player |-> sender,
                         gamesPlayed |-> players'[sender].gamesPlayed]>>
         /\ last' = Call("playTurn", sender, <<>>, TRUE, <<>>)
         /\ prev' = Ledger
         /\ asked' = NoQuery
         /\ UNCHANGED <<playerAddresses, owner, balance, now, acl, interacted,
                        received, checkIns, bought, submitted>>

\* playTurn that pays the price of the turn back out of the contract balance.
playTurn_refund(sender) ==
    LET player == players[sender] IN
    IF ~(player.availableTurns > 0)
    THEN Revert("playTurn", sender, <<>>, "No turns available")
    ELSE /\ players' = [players EXCEPT
                ![sender].availableTurns = @ - 1,
                ![sender].gamesPlayed = @ + 1]
         /\ events' = <<[name |-> "GamePlayed", player |-> sender,
                         turnsRemaining |-> players'[sender].availableTurns],
                        [name |-> "ScoreUpdated", player |-> sender,
                         gamesPlayed |-> players'[sender].gamesPlayed]>>
         /\ last' = Call("playTurn", sender, <<>>, TRUE, <<>>)
         /\ prev' = Ledger
         /\ asked' = NoQuery
         /\ balance' = IF balance >= TURN_PRICE THEN balance - TURN_PRICE ELSE balance
         /\ UNCHANGED <<playerAddresses, owner, now, acl, interacted,
                        received, checkIns, bought, submitted>>

playTurn(sender) ==
    LET player == players[sender] IN
    IF ~(player.availableTurns > 0)
    THEN Revert("playTurn", sender, <<>>, "No turns available")
    ELSE /\ players' = [players EXCEPT
                ![sender].availableTurns = @ - 1,
                ![sender].gamesPlayed = @ + 1]
         /\ events' = <<[name |-> "GamePlayed", player |-> sender,
                         turnsRemaining |-> players'[sender].availableTurns],
                        [name |-> "ScoreUpdated", player |-> sender,
                         gamesPlayed |-> players'[sender].gamesPlayed]>>
         /\ last' = Call("playTurn", sender, <<>>, TRUE, <<>>)
         /\ prev' = Ledger
         /\ asked' = NoQuery
         /\ UNCHANGED <<playerAddresses, owner, balance, now, acl, interacted,
                        received, checkIns, bought, submitted>>

\* modifier onlyOwner
onlyOwner(sender) == sender = owner

\* withdraw without the onlyOwner modifier.
withdraw_unguarded(sender) ==
    IF ~(balance > 0)
    THEN Revert("withdraw", sender, <<>>, "No balance to withdraw")
    ELSE /\ balance' = 0
         /\ events' = <<[name |-> "Withdrawal", owner |-> owner, amount |-> balance]>>
         /\ last' = Call("withdraw", sender, <<>>, TRUE, <<>>)
         /\ prev' = Ledger
         /\ asked' = NoQuery
         /\ received' = [received EXCEPT ![owner] = @ + balance]
         /\ UNCHANGED <<players, playerAddresses, owner, now, acl, interacted,
                        checkIns, bought, submitted>>

\* withdraw: payable(owner).transfer(balance) sends the whole balance to the
\* owner, an externally owned account, which cannot refuse it.
withdraw(sender) ==
    IF ~onlyOwner(sender)
    THEN Revert("withdraw", sender, <<>>, "Only owner can call this function")
    ELSE IF ~(balance > 0)
    THEN Revert("withdraw", sender, <<>>, "No balance to withdraw")
    ELSE /\ balance' = 0
         /\ events' = <<[name |-> "Withdrawal", owner |-> owner, amount |-> balance]>>
         /\ last' = Call("withdraw", sender, <<>>, TRUE, <<>>)
         /\ prev' = Ledger
         /\ asked' = NoQuery
         /\ received' = [received EXCEPT ![owner] = @ + balance]
         /\ UNCHANGED <<players, playerAddresses, owner, now, acl, interacted,
                        checkIns, bought, submitted>>

\* transferOwnership without the check of the new owner's address.
transferOwnership_noZeroCheck(sender, newOwner) ==
    IF ~onlyOwner(sender)
    THEN Revert("transferOwnership", sender, <<newOwner>>, "Only owner can call this function")
    ELSE /\ owner' = newOwner
         /\ events' = <<>>
         /\ last' = Call("transferOwnership", sender, <<newOwner>>, TRUE, <<>>)
         /\ prev' = Ledger
         /\ asked' = NoQuery
         /\ UNCHANGED <<players, playerAddresses, balance, now, acl, interacted,
                        received, checkIns, bought, submitted>>

transferOwnership(sender, newOwner) ==
    IF ~onlyOwner(sender)
    THEN Revert("transferOwnership", sender, <<newOwner>>, "Only owner can call this function")
    ELSE IF ~(newOwner # ZeroAddress)
    THEN Revert("transferOwnership", sender, <<newOwner>>, "Invalid new owner address")
    ELSE /\ owner' = newOwner
         /\ events' = <<>>
         /\ last' = Call("transferOwnership", sender, <<newOwner>>, TRUE, <<>>)
         /\ prev' = Ledger
         /\ asked' = NoQuery
         /\ UNCHANGED <<players, playerAddresses, balance, now, acl, interacted,
                        received, checkIns, bought, submitted>>

\* ---------------------------------------------------------------- views
getPlayerScore(playerAddress) == players[playerAddress].totalScore

getPlayerInfo(playerAddress) ==
    LET player == players[playerAddress] IN
    <<player.lastCheckInTime, player.availableTurns, player.gamesPlayed>>

getTotalPlayers == Len(playerAddresses)

\* canCheckIn that wants more than a day to have passed.
canCheckIn_strict(playerAddress) ==
    LET player == players[playerAddress] IN
    now > player.lastCheckInTime + SECONDS_PER_DAY

canCheckIn(playerAddress) ==
    LET player == players[playerAddress] IN
    now >= player.lastCheckInTime + SECONDS_PER_DAY

getBalance == balance

\* struct LeaderboardEntry
LeaderboardEntry(playerAddr) ==
    [playerAddress |-> playerAddr, gamesPlayed |-> players[playerAddr].gamesPlayed]

\* getLeaderboard's first loop: one entry per registry slot, in registry order.
CreateEntries ==
    [i \in 1..Len(playerAddresses) |-> LeaderboardEntry(playerAddresses[i])]

\* The body of the inner loop: exchange entries i and j when the earlier one
\* has played fewer games.
SwapIfLess(leaderboard, i, j) ==
    IF leaderboard[i].gamesPlayed < leaderboard[j].gamesPlayed
    THEN [leaderboard EXCEPT ![i] = leaderboard[j], ![j] = leaderboard[i]]
    ELSE leaderboard

\* for (j = i + 1; j < playerCount; j++), with indices counted from 1.
RECURSIVE InnerLoop(_, _, _)
InnerLoop(leaderboard, i, j) ==
    IF j > Len(leaderboard) THEN leaderboard
    ELSE InnerLoop(SwapIfLess(leaderboard, i, j), i, j + 1)

\* The outer loop stopping after its first pass: the largest entry is moved
\* to the front and the rest is left as it is.
OuterLoop_onePass(leaderboard, i) ==
    IF i > Len(leaderboard) \/ i > 1 THEN leaderboard
    ELSE InnerLoop(leaderboard, i, i + 1)

\* for (i = 0; i < playerCount; i++), with indices counted from 1.
RECURSIVE OuterLoop(_, _)
OuterLoop(leaderboard, i) ==
    IF i > Len(leaderboard) THEN leaderboard
    ELSE OuterLoop(InnerLoop(leaderboard, i, i + 1), i + 1)

\* What getLeaderboard() returns in the current state.
Leaderboard == OuterLoop(CreateEntries, 1)

\* getLeaderboard that sorts the registry in storage instead of a copy in memory.
getLeaderboard_inPlace ==
    /\ last' = Call("getLeaderboard", ZeroAddress, <<>>, TRUE, Leaderboard)
    /\ prev' = Ledger
    /\ asked' = Remembered
    /\ events' = <<>>
    /\ playerAddresses' =
          [i \in 1..Len(playerAddresses) |-> Leaderboard[i].playerAddress]
    /\ UNCHANGED <<players, owner, balance, now, acl, interacted,
                   received, checkIns, bought, submitted>>

\* A call of the view getLeaderboard(); it does not read msg.sender.
getLeaderboard ==
    /\ last' = Call("getLeaderboard", ZeroAddress, <<>>, TRUE, Leaderboard)
    /\ prev' = Ledger
    /\ asked' = Remembered
    /\ events' = <<>>
    /\ UNCHANGED <<players, playerAddresses, owner, balance, now, acl, interacted,
                   received, checkIns, bought, submitted>>

\* A call of a view function other than getLeaderboard: an eth_call, which
\* runs the function on the current ledger and returns ret.
StaticCall(op, args, ret) ==
    /\ last' = Call(op, ZeroAddress, args, TRUE, ret)
    /\ prev' = Ledger
    /\ asked' = Remembered
    /\ events' = <<>>
    /\ UNCHANGED <<players, playerAddresses, owner, balance, now, acl, interacted,
                   received, checkIns, bought, submitted>>

\* ------------------------------------------------------- specifications
\* Blocks mined at the given times, check-ins, purchases and plays without a
\* score, with the turns ever granted bounded by limit.
Game(limit, times) ==
    \/ \E t \in times :
          /\ MineBlock(t)
          /\ UNCHANGED clientVars
    \/ \E a \in Callers :
          /\ Granted + DAILY_FREE_TURNS <= limit
          /\ dailyCheckIn(a)
          /\ UNCHANGED clientVars
    \/ \E a \in Callers : \E n \in Counts : \E v \in Payments(n) :
          /\ Granted + n <= limit
          /\ buyTurns(a, n, v)
          /\ UNCHANGED clientVars
    \/ \E a \in Callers :
          /\ playTurn(a)
          /\ UNCHANGED clientVars

\* Plays with an encrypted score.
Confidential ==
    \E a \in Callers : \E in \in DropInputs :
        /\ ScoreSum + in[1] <= MaxScoreSum
        /\ dropBall(a, in[1], in[2])
        /\ UNCHANGED clientVars

\* The owner's functions, with ownership offered to the given addresses.
Admin(newOwners) ==
    \/ \E a \in Callers :
          /\ withdraw(a)
          /\ UNCHANGED clientVars
    \/ \E a \in Callers : \E n \in newOwners :
          /\ transferOwnership(a, n)
          /\ UNCHANGED clientVars

\* Every function of the contract.  MaxGranted leaves room for one check-in,
\* so one later block suffices; ownership goes from the deployer to alice.
Next ==
    \/ Game(MaxGranted, {StartTime + SECONDS_PER_DAY})
    \/ Confidential
    \/ Admin({"alice", ZeroAddress})

Spec == Init /\ [][Next]_vars

NextGame == Game(MaxGrantedGame, Times)

SpecGame == Init /\ [][NextGame]_vars

\* Purchases and the owner's functions, with ownership passing between the
\* callers in both directions and to the owner itself.
NextAdmin == Game(MaxGranted, Times) \/ Admin(Callers \cup {ZeroAddress})

SpecAdmin == Init /\ [][NextAdmin]_vars

\* The sequences over S without repetition.
RECURSIVE Arrangements(_)
Arrangements(S) ==
    {<<>>} \cup UNION {{<<x>> \o r : r \in Arrangements(S \ {x})} : x \in S}

Range(s) == {s[i] : i \in 1..Len(s)}

\* A ledger some time after deployment: any registry of distinct addresses;
\* each registered account bought played[a] + 1 turns in one purchase and
\* used all but one of them with playTurn.
InitLeaderboard ==
    \E registry \in Arrangements(Accounts) :
    \E played \in [Accounts -> 0..MaxPlayed] :
        /\ playerAddresses = registry
        /\ players = [a \in Accounts |->
                IF a \in Range(registry)
                THEN [totalScore |-> 0, lastCheckInTime |-> 1,
                      availableTurns |-> 1, gamesPlayed |-> played[a]]
                ELSE Player]
        /\ owner = "deployer"
        /\ balance = SumOver(Range(registry),
                             [a \in Accounts |-> (played[a] + 1) * TURN_PRICE])
        /\ now = StartTime
        /\ acl = [a \in Accounts |-> {}]
        /\ interacted = Range(registry)
        /\ received = [a \in Accounts |-> 0]
        /\ checkIns = [a \in Accounts |-> 0]
        /\ bought = [a \in Accounts |->
                IF a \in Range(registry) THEN played[a] + 1 ELSE 0]
        /\ submitted = [a \in Accounts |-> 0]
        /\ events = <<>>
        /\ last = Call("mine", ZeroAddress, <<>>, TRUE, <<>>)
        /\ prev = Ledger
        /\ asked = NoQuery
        /\ PageLoaded

NextLeaderboard ==
    \/ /\ getLeaderboard
       /\ UNCHANGED clientVars
    \/ \E a \in Callers :
          /\ playTurn(a)
          /\ UNCHANGED clientVars

SpecLeaderboard == InitLeaderboard /\ [][NextLeaderboard]_vars

\* The calls of the view functions.
Query ==
    \/ \E a \in QueryArgs :
          /\ StaticCall("getPlayerScore", <<a>>, <<getPlayerScore(a)>>)
          /\ UNCHANGED clientVars
    \/ \E a \in QueryArgs :
          /\ StaticCall("getPlayerInfo", <<a>>, getPlayerInfo(a))
          /\ UNCHANGED clientVars
    \/ \E a \in QueryArgs :
          /\ StaticCall("canCheckIn", <<a>>, <<canCheckIn(a)>>)
          /\ UNCHANGED clientVars
    \/ /\ StaticCall("getTotalPlayers", <<>>, <<getTotalPlayers>>)
       /\ UNCHANGED clientVars
    \/ /\ StaticCall("getBalance", <<>>, <<getBalance>>)
       /\ UNCHANGED clientVars
    \/ /\ getLeaderboard
       /\ UNCHANGED clientVars

\* Check-ins, purchases and plays with queries between them.
NextQueries == Game(MaxGranted, {StartTime + SECONDS_PER_DAY}) \/ Query

SpecQueries == Init /\ [][NextQueries]_vars

\* ---------------------------------------------------------------- claims
\* ------------------------------------------------------------- the client
\* SECURITY_CONFIG
MAX_GAMES_PER_MINUTE == 5
SESSION_TIMEOUT == 3600000
MIN_TIME_BETWEEN_GAMES == 2000
RATE_LIMIT_WINDOW == 60000

\* The size of usedNonces above which validateNonce empties it.
MAX_USED_NONCES == 10000

\* Math.floor(Math.random() * 1000000): the game id of a play.
GameIds == {"424242"}

\* turnsToBy, the number in the page's input field (at least 1).
TurnsToBuy == {1, 2}

\* The time the user lets pass between two steps, in milliseconds.
Ticks == {MIN_TIME_BETWEEN_GAMES, SESSION_TIMEOUT + 1}

nonceVars == <<usedNonces, accepted, validated>>

\* message.nonce of a new authentication message (eip712.ts, Math.random):
\* a nonce that was not used before.  The nonces are numbered as they appear.
FreshNonce == accepted + 1

\* The nonces presented again.
ReplayedNonces == {1, 2}

\* Set.has, Set.size and Set.add of usedNonces.
has(nonces, nonce) ==
    \/ nonces.first <= nonce /\ nonce <= nonces.last
    \/ nonce \in nonces.others

size(nonces) == (nonces.last - nonces.first + 1) + Cardinality(nonces.others)

add(nonces, nonce) ==
    IF has(nonces, nonce) THEN nonces
    ELSE IF nonce = nonces.last + 1 THEN [nonces EXCEPT !.last = nonce]
    ELSE [nonces EXCEPT !.others = @ \cup {nonce}]

\* SignatureValidator.validateNonce: its result.
validateNonce_ret(nonce) == ~has(usedNonces, nonce)

\* SignatureValidator.validateNonce: the usedNonces it leaves.
validateNonce_usedNonces(nonce) ==
    IF has(usedNonces, nonce)
    THEN usedNonces
    ELSE LET added == add(usedNonces, nonce) IN
         IF size(added) > MAX_USED_NONCES THEN NoNonces ELSE added

\* SignatureValidator.validateNonce.
validateNonce(nonce) ==
    /\ usedNonces' = validateNonce_usedNonces(nonce)
    /\ accepted' = IF validateNonce_ret(nonce) /\ nonce > accepted
                   THEN nonce ELSE accepted
    /\ validated' = [nonce |-> nonce, ret |-> validateNonce_ret(nonce),
                     replay |-> nonce <= accepted]

\* Map.set and Map.delete.
MapSet(m, k, v) == [a \in DOMAIN m \cup {k} |-> IF a = k THEN v ELSE m[a]]
MapDelete(m, k) == [a \in DOMAIN m \ {k} |-> m[a]]

\* PlinkoContract.getPlayerInfo: the ledger's answer as a PlayerInfo.
PlayerInfo(address) ==
    LET info == getPlayerInfo(address) IN
    [lastCheckInTime |-> info[1], availableTurns |-> info[2], gamesPlayed |-> info[3]]

\* SecurityManager.createSession: the session it stores.
createSession ==
    [timestamp |-> clock, gameCount |-> 0, lastGameTime |-> 0, games |-> <<>>]

\* SecurityManager.validateSession: its result.
validateSession(address) ==
    IF address \in security.blockedAddresses
    THEN [valid |-> FALSE, reason |-> "Address is blocked"]
    ELSE IF address \notin DOMAIN security.sessions
    THEN [valid |-> FALSE, reason |-> "No active session"]
    ELSE IF clock - security.sessions[address].timestamp > SESSION_TIMEOUT
    THEN [valid |-> FALSE, reason |-> "Session expired"]
    ELSE [valid |-> TRUE]

\* SecurityManager.validateSession: the sessions it leaves (an expired session
\* is deleted).
validateSession_sessions(address) ==
    IF ~validateSession(address).valid
       /\ validateSession(address).reason = "Session expired"
    THEN MapDelete(security.sessions, address)
    ELSE security.sessions

\* The game timestamps of a session that checkRateLimit keeps.
RecentGames(session) ==
    SelectSeq(session.games, LAMBDA timestamp : clock - timestamp < RATE_LIMIT_WINDOW)

\* SecurityManager.checkRateLimit: its result.
checkRateLimit(address) ==
    IF address \notin DOMAIN security.sessions
    THEN [allowed |-> FALSE, reason |-> "No active session"]
    ELSE LET session == security.sessions[address] IN
         IF Len(RecentGames(session)) >= MAX_GAMES_PER_MINUTE
         THEN [allowed |-> FALSE, reason |-> "Too many games per minute"]
         ELSE IF clock - session.lastGameTime < MIN_TIME_BETWEEN_GAMES
         THEN [allowed |-> FALSE, reason |-> "Please wait before playing again"]
         ELSE [allowed |-> TRUE]

\* SecurityManager.checkRateLimit: the sessions it leaves (old game timestamps
\* are dropped).
checkRateLimit_sessions(address) ==
    IF address \notin DOMAIN security.sessions
    THEN security.sessions
    ELSE [security.sessions EXCEPT ![address].games = RecentGames(security.sessions[address])]

\* useSecurity.validateGameAttempt: its result, which is validateSession's
\* result ({valid, reason}) when the session is not valid.
validateGameAttempt(address) ==
    LET sessionValidation == validateSession(address) IN
    IF ~sessionValidation.valid
    THEN sessionValidation
    ELSE checkRateLimit(address)

validateGameAttempt_sessions(address) ==
    IF ~validateSession(address).valid
    THEN validateSession_sessions(address)
    ELSE checkRateLimit_sessions(address)

\* `validation.allowed` as a condition: a missing property is undefined.
Allowed(validation) == "allowed" \in DOMAIN validation /\ validation.allowed

\* SecurityManager.recordGameAttempt: the sessions it leaves.
recordGameAttempt(address) ==
    IF address \notin DOMAIN security.sessions
    THEN security.sessions
    ELSE [security.sessions EXCEPT
            ![address].games = Append(@, clock),
            ![address].lastGameTime = clock,
            ![address].gameCount = @ + 1]

\* The lowest free slot for a call.
HasFreeSlot == \E i \in CallIds : calls[i] = Idle
FreeSlot == CHOOSE i \in CallIds : calls[i] = Idle /\ \A j \in CallIds : calls[j] = Idle => i <= j

Awaiting(fn, pc) == [fn |-> fn, pc |-> pc, arg |-> 0]

\* A call of the client returns: its result, whether its own transaction was
\* confirmed, whether it had set isLoading, and isLoading as it finds and as
\* it leaves it in its last step.
Returned(fn, ret, confirmed, setLoading, isLoading) ==
    [fn |-> fn, ret |-> ret, confirmed |-> confirmed, setLoading |-> setLoading,
     wasLoading |-> hook.isLoading, isLoading |-> isLoading]

\* The availableTurns property the page hands to the canvas.
availableTurns ==
    IF hook.playerInfo = None THEN 0 ELSE hook.playerInfo[1].availableTurns

\* The page's canCheckIn (calculateCountdown); the wall clock is the ledger's.
pageCanCheckIn ==
    IF hook.playerInfo = None THEN TRUE
    ELSE IF hook.playerInfo[1].lastCheckInTime = 0 THEN TRUE
    ELSE hook.playerInfo[1].lastCheckInTime + SECONDS_PER_DAY <= now

\* PlinkoCanvas.dropBall after `await onPlayGame?.()`: the canvas it leaves.
dropBall_then(gameId) ==
    IF gameId # Undefined
    THEN [ball |-> TRUE, isPlaying |-> TRUE, currentGameId |-> gameId]
    ELSE canvas

\* The game id the last ball was dropped for.
dropBall_dropped(gameId) ==
    IF gameId # Undefined THEN gameId ELSE audit.dropped

\* The wallet is connected and initializeContract is called.
handleWalletConnected ==
    /\ ~isConnected
    /\ HasFreeSlot
    /\ isConnected' = TRUE
    /\ hook' = [hook EXCEPT !.isLoading = TRUE]
    /\ calls' = [calls EXCEPT ![FreeSlot] = Awaiting("initializeContract", "contract")]
    /\ UNCHANGED <<security, canvas, clock, done, audit, nonceVars>>
    /\ UNCHANGED ledgerVars

\* initializeContract: the contract adapter is initialised and the player's
\* info fetched, or that fails.
initializeContract_contract(i, ok) ==
    /\ calls[i] = Awaiting("initializeContract", "contract")
    /\ hook' = IF ok
               THEN [hook EXCEPT !.contract = TRUE, !.playerInfo = Some(PlayerInfo(Signer))]
               ELSE [hook EXCEPT !.fallbackMode = TRUE]
    /\ calls' = [calls EXCEPT ![i] = Awaiting("initializeContract", "authenticate")]
    /\ UNCHANGED <<isConnected, security, canvas, clock, done, audit, nonceVars>>
    /\ UNCHANGED ledgerVars

\* initializeContract: authenticateUser (the user signs and the signature, its
\* age and its nonce are valid, or not), then isInitialized.
initializeContract_authenticate(i, signed) ==
    LET signature == signed /\ Signer \notin security.blockedAddresses
        authSuccess == signature /\ validateNonce_ret(FreshNonce)
    IN
    /\ calls[i] = Awaiting("initializeContract", "authenticate")
    /\ IF signature THEN validateNonce(FreshNonce) ELSE UNCHANGED nonceVars
    /\ security' = IF authSuccess
                   THEN [security EXCEPT
                            !.sessions = MapSet(@, Signer, createSession),
                            !.isAuthenticated = TRUE]
                   ELSE security
    /\ hook' = [hook EXCEPT !.fallbackMode = IF authSuccess THEN @ ELSE TRUE,
                            !.isInitialized = TRUE,
                            !.isLoading = FALSE]
    /\ calls' = [calls EXCEPT ![i] = Idle]
    /\ done' = Returned("initializeContract", Null, FALSE, TRUE, FALSE)
    /\ UNCHANGED <<isConnected, canvas, clock, audit>>
    /\ UNCHANGED ledgerVars

\* The Daily Check-in button: useContract.dailyCheckIn up to its first await.
handleDailyCheckIn ==
    /\ isConnected /\ hook.isInitialized
    /\ ~hook.isLoading /\ pageCanCheckIn
    /\ HasFreeSlot
    /\ IF ~hook.contract
       THEN /\ done' = Returned("dailyCheckIn", FALSE, FALSE, FALSE, hook.isLoading)
            /\ UNCHANGED <<hook, calls>>
       ELSE /\ hook' = [hook EXCEPT !.isLoading = TRUE]
            /\ calls' = [calls EXCEPT ![FreeSlot] = Awaiting("dailyCheckIn", "canCheckIn")]
            /\ UNCHANGED done
    /\ UNCHANGED <<isConnected, security, canvas, clock, audit, nonceVars>>
    /\ UNCHANGED ledgerVars

\* useContract.dailyCheckIn: the answer of the ledger's canCheckIn.
dailyCheckIn_canCheckIn(i) ==
    /\ calls[i] = Awaiting("dailyCheckIn", "canCheckIn")
    /\ IF ~canCheckIn(Signer)
       THEN /\ hook' = [hook EXCEPT !.isLoading = FALSE]
            /\ calls' = [calls EXCEPT ![i] = Idle]
            /\ done' = Returned("dailyCheckIn", FALSE, FALSE, TRUE, FALSE)
       ELSE /\ calls' = [calls EXCEPT ![i].pc = "wallet"]
            /\ UNCHANGED <<hook, done>>
    /\ UNCHANGED <<isConnected, security, canvas, clock, audit, nonceVars>>
    /\ UNCHANGED ledgerVars

\* The Buy button: useContract.buyTurns up to contract.buyTurns.
handleBuyTurns(turnCount) ==
    /\ isConnected /\ hook.isInitialized
    /\ ~hook.isLoading
    /\ HasFreeSlot
    /\ IF ~hook.contract
       THEN /\ done' = Returned("buyTurns", FALSE, FALSE, FALSE, hook.isLoading)
            /\ UNCHANGED <<hook, calls>>
       ELSE /\ hook' = [hook EXCEPT !.isLoading = TRUE]
            /\ calls' = [calls EXCEPT ![FreeSlot] =
                            [fn |-> "buyTurns", pc |-> "wallet", arg |-> turnCount]]
            /\ UNCHANGED done
    /\ UNCHANGED <<isConnected, security, canvas, clock, audit, nonceVars>>
    /\ UNCHANGED ledgerVars

\* The Drop Ball button: PlinkoCanvas.dropBall, handlePlayGame and
\* useContract.playGame up to its first await.
dropBall_click ==
    /\ isConnected /\ hook.isInitialized
    /\ ~canvas.isPlaying
    /\ availableTurns > 0
    /\ HasFreeSlot
    /\ IF ~hook.contract
       THEN \E mockGameId \in GameIds :
            /\ canvas' = dropBall_then(mockGameId)
            /\ audit' = [audit EXCEPT !.attempts = @ + 1,
                                      !.dropped = dropBall_dropped(mockGameId)]
            /\ done' = Returned("playGame", mockGameId, FALSE, FALSE, hook.isLoading)
            /\ UNCHANGED calls
       ELSE /\ calls' = [calls EXCEPT ![FreeSlot] = Awaiting("playGame", "getPlayerInfo")]
            /\ audit' = [audit EXCEPT !.attempts = @ + 1]
            /\ UNCHANGED <<canvas, done>>
    /\ UNCHANGED <<isConnected, hook, security, clock, nonceVars>>
    /\ UNCHANGED ledgerVars

\* useContract.playGame: the ledger's player info, then validateGameAttempt;
\* an admitted play asks the wallet for a playTurn transaction.  A play that
\* is not admitted returns null to PlinkoCanvas.dropBall, which goes on
\* (onTurnUsed refreshes the player info).
playGame_getPlayerInfo(i) ==
    LET info == PlayerInfo(Signer)
        validation == validateGameAttempt(Signer)
    IN
    /\ calls[i] = Awaiting("playGame", "getPlayerInfo")
    /\ IF info.availableTurns <= 0
       THEN /\ calls' = [calls EXCEPT ![i] = Idle]
            /\ done' = Returned("playGame", Null, FALSE, FALSE, hook.isLoading)
            /\ canvas' = dropBall_then(Null)
            /\ hook' = [hook EXCEPT !.playerInfo = Some(info)]
            /\ audit' = [audit EXCEPT !.dropped = dropBall_dropped(Null)]
            /\ UNCHANGED security
       ELSE IF ~Allowed(validation)
       THEN /\ security' = [security EXCEPT
                               !.sessions = validateGameAttempt_sessions(Signer)]
            /\ calls' = [calls EXCEPT ![i] = Idle]
            /\ done' = Returned("playGame", Null, FALSE, FALSE, hook.isLoading)
            /\ canvas' = dropBall_then(Null)
            /\ hook' = [hook EXCEPT !.playerInfo = Some(info)]
            /\ audit' = [audit EXCEPT !.dropped = dropBall_dropped(Null),
                                      !.refused = validation.reason]
       ELSE /\ security' = [security EXCEPT
                               !.sessions = validateGameAttempt_sessions(Signer)]
            /\ calls' = [calls EXCEPT ![i].pc = "wallet"]
            /\ hook' = [hook EXCEPT !.isLoading = TRUE]
            /\ audit' = [audit EXCEPT !.admitted = Append(@, clock)]
            /\ UNCHANGED <<canvas, done>>
    /\ UNCHANGED <<isConnected, clock, nonceVars>>
    /\ UNCHANGED ledgerVars

\* The user confirms the transaction in the wallet: it is sent.
walletConfirms(i) ==
    /\ calls[i].pc = "wallet"
    /\ calls' = [calls EXCEPT ![i].pc = "sent"]
    /\ UNCHANGED <<isConnected, hook, security, canvas, clock, done, audit, nonceVars>>
    /\ UNCHANGED ledgerVars

\* The user cancels the transaction in the wallet (error 4001): the call
\* returns false, or null to PlinkoCanvas.dropBall.
walletRejects(i) ==
    /\ calls[i].pc = "wallet"
    /\ calls' = [calls EXCEPT ![i] = Idle]
    /\ IF calls[i].fn = "playGame"
       THEN /\ done' = Returned("playGame", Null, FALSE, TRUE, FALSE)
            /\ canvas' = dropBall_then(Null)
            /\ hook' = [hook EXCEPT !.isLoading = FALSE,
                                    !.playerInfo = Some(PlayerInfo(Signer))]
            /\ audit' = [audit EXCEPT !.dropped = dropBall_dropped(Null)]
       ELSE /\ done' = Returned(calls[i].fn, FALSE, FALSE, TRUE, FALSE)
            /\ hook' = [hook EXCEPT !.isLoading = FALSE]
            /\ UNCHANGED <<canvas, audit>>
    /\ UNCHANGED <<isConnected, security, clock, nonceVars>>
    /\ UNCHANGED ledgerVars

\* contract.dailyCheckIn and tx.wait(): the ledger executes the transaction;
\* confirmed, the player info is fetched and the call returns true.
dailyCheckIn_mined(i) ==
    /\ calls[i] = Awaiting("dailyCheckIn", "sent")
    /\ dailyCheckIn(Signer)
    /\ hook' = [hook EXCEPT !.isLoading = FALSE,
                            !.playerInfo = IF last'.ok THEN Some(PlayerInfo(Signer)') ELSE @]
    /\ calls' = [calls EXCEPT ![i] = Idle]
    /\ done' = Returned("dailyCheckIn", last'.ok, last'.ok, TRUE, FALSE)
    /\ UNCHANGED <<isConnected, security, canvas, clock, audit, nonceVars>>

\* contract.buyTurns and tx.wait(), the value being turnCount * 0.001 ether.
buyTurns_mined(i) ==
    /\ calls[i].fn = "buyTurns" /\ calls[i].pc = "sent"
    /\ buyTurns(Signer, calls[i].arg, calls[i].arg * TURN_PRICE)
    /\ hook' = [hook EXCEPT !.isLoading = FALSE,
                            !.playerInfo = IF last'.ok THEN Some(PlayerInfo(Signer)') ELSE @]
    /\ calls' = [calls EXCEPT ![i] = Idle]
    /\ done' = Returned("buyTurns", last'.ok, last'.ok, TRUE, FALSE)
    /\ UNCHANGED <<isConnected, security, canvas, clock, audit, nonceVars>>

\* playGame that returns a game id whether or not the transaction was confirmed.
playGame_mined_optimistic(i) ==
    /\ calls[i] = Awaiting("playGame", "sent")
    /\ playTurn(Signer)
    /\ \E id \in GameIds :
        LET gameId == id IN
        /\ done' = Returned("playGame", gameId, last'.ok, TRUE, FALSE)
        /\ canvas' = dropBall_then(gameId)
        /\ audit' = [audit EXCEPT !.dropped = dropBall_dropped(gameId)]
    /\ hook' = [hook EXCEPT !.isLoading = FALSE, !.playerInfo = Some(PlayerInfo(Signer)')]
    /\ calls' = [calls EXCEPT ![i] = Idle]
    /\ UNCHANGED <<isConnected, security, clock, nonceVars>>

\* contract.playTurn and tx.wait(): confirmed, playGame returns a game id,
\* otherwise null; PlinkoCanvas.dropBall goes on with what it returned.
playGame_mined(i) ==
    /\ calls[i] = Awaiting("playGame", "sent")
    /\ playTurn(Signer)
    /\ \E id \in GameIds :
        LET gameId == IF last'.ok THEN id ELSE Null IN
        /\ done' = Returned("playGame", gameId, last'.ok, TRUE, FALSE)
        /\ canvas' = dropBall_then(gameId)
        /\ audit' = [audit EXCEPT !.dropped = dropBall_dropped(gameId)]
    /\ hook' = [hook EXCEPT !.isLoading = FALSE, !.playerInfo = Some(PlayerInfo(Signer)')]
    /\ calls' = [calls EXCEPT ![i] = Idle]
    /\ UNCHANGED <<isConnected, security, clock, nonceVars>>

\* The ball reaches the bottom: onGameResult, handleGameResult,
\* submitGameResult and recordGameResult, which records the game attempt.
ballLands ==
    /\ canvas.ball
    /\ canvas' = [ball |-> FALSE, isPlaying |-> FALSE, currentGameId |-> Null]
    /\ audit' = [audit EXCEPT !.reported = canvas.currentGameId]
    /\ security' = IF hook.isInitialized /\ hook.contract
                   THEN [security EXCEPT !.sessions = recordGameAttempt(Signer)]
                   ELSE security
    /\ UNCHANGED <<isConnected, hook, clock, calls, done, nonceVars>>
    /\ UNCHANGED ledgerVars

\* The Reset button.
resetGame ==
    /\ canvas.ball
    /\ canvas' = [ball |-> FALSE, isPlaying |-> FALSE, currentGameId |-> Null]
    /\ UNCHANGED <<isConnected, hook, security, clock, calls, done, audit, nonceVars>>
    /\ UNCHANGED ledgerVars

\* SecurityManager.cleanExpiredSessions, run by a timer.
cleanExpiredSessions ==
    LET expired == {a \in DOMAIN security.sessions :
                       clock - security.sessions[a].timestamp > SESSION_TIMEOUT}
    IN /\ expired # {}
       /\ security' = [security EXCEPT
                          !.sessions = [a \in DOMAIN @ \ expired |-> @[a]]]
       /\ UNCHANGED <<isConnected, hook, canvas, clock, calls, done, audit, nonceVars>>
       /\ UNCHANGED ledgerVars

\* The advances of the clock since the page was loaded.
TicksTaken ==
    LET elapsed == clock - PageLoadTime IN
    (elapsed \div (SESSION_TIMEOUT + 1))
        + ((elapsed % (SESSION_TIMEOUT + 1)) \div MIN_TIME_BETWEEN_GAMES)

\* Time passes in the browser.
Tick(ms) ==
    /\ clock' = clock + ms
    /\ UNCHANGED <<isConnected, hook, security, canvas, calls, done, audit, nonceVars>>
    /\ UNCHANGED ledgerVars

\* One browser client of the ledger: the page, its hooks and its canvas, for
\* the given number of activations of Drop Ball and of turns granted by the
\* ledger.
Client(attempts, granted) ==
    \/ handleWalletConnected
    \/ \E i \in CallIds : \E ok \in BOOLEAN : initializeContract_contract(i, ok)
    \/ \E i \in CallIds : \E signed \in BOOLEAN : initializeContract_authenticate(i, signed)
    \/ /\ Granted + DAILY_FREE_TURNS <= granted
       /\ handleDailyCheckIn
    \/ \E i \in CallIds : dailyCheckIn_canCheckIn(i)
    \/ \E turnCount \in TurnsToBuy :
          /\ Granted + turnCount <= granted
          /\ handleBuyTurns(turnCount)
    \/ /\ audit.attempts < attempts
       /\ dropBall_click
    \/ \E i \in CallIds : playGame_getPlayerInfo(i)
    \/ \E i \in CallIds : walletConfirms(i)
    \/ \E i \in CallIds : walletRejects(i)
    \/ \E i \in CallIds :
          /\ Granted + DAILY_FREE_TURNS <= granted
          /\ dailyCheckIn_mined(i)
    \/ \E i \in CallIds :
          /\ Granted + calls[i].arg <= granted
          /\ buyTurns_mined(i)
    \/ \E i \in CallIds : playGame_mined(i)
    \/ ballLands
    \/ resetGame

\* The browser's clock and the timer that cleans the sessions.
Timers(ticks) ==
    \/ cleanExpiredSessions
    \/ \E ms \in Ticks :
          /\ TicksTaken < ticks
          /\ Tick(ms)

\* The client while no time passes.
NextClient == Client(MaxAttempts, MaxClientGranted)

SpecClient == Init /\ [][NextClient]_vars

\* The client over time: its sessions expire and its rate limits reopen.
NextSession == Client(MaxTimedAttempts, MaxTimedGranted) \/ Timers(MaxTicks)

SpecSession == Init /\ [][NextSession]_vars

\* The signature validator over the lifetime of the client: authentication
\* messages with new nonces, and messages presented again.
NextNonce ==
    /\ \/ /\ accepted <= MAX_USED_NONCES + MaxAfterClear
          /\ validateNonce(FreshNonce)
       \/ \E nonce \in ReplayedNonces \cap (1..accepted) : validateNonce(nonce)
    /\ UNCHANGED <<isConnected, hook, security, canvas, clock, calls, done, audit>>
    /\ UNCHANGED ledgerVars

SpecNonce == Init /\ [][NextNonce]_vars


Plays == {"playTurn", "dropBall"}

\* C1: availableTurns is never negative, and a playTurn or dropBall by a
\* caller with no turns is rejected, with the ledger as it was before the
\* call (turns and gamesPlayed included) and no event emitted.
C1_PlayRejectedAtZero ==
    /\ \A a \in Accounts : players[a].availableTurns >= 0
    /\ (last.op \in Plays /\ prev.players[last.caller].availableTurns = 0)
          => (~last.ok /\ Ledger = prev /\ events = <<>>)

\* A fourth dropBall was rejected after the three turns of a check-in were played.
C1_Witness ==
    /\ last.op = "dropBall" /\ ~last.ok
    /\ players[last.caller].availableTurns = 0
    /\ players[last.caller].gamesPlayed = 3

\* C2: a successful playTurn or dropBall takes exactly one turn from the
\* caller and adds exactly one to the caller's gamesPlayed; nothing else
\* (another account's play, a check-in, a purchase, a withdrawal, a transfer
\* of ownership, a rejected call, a new block) changes any gamesPlayed, which
\* therefore never decreases.
C2_PlayCountsOnce ==
    /\ (last.op \in Plays /\ last.ok) =>
          /\ players[last.caller].availableTurns =
                prev.players[last.caller].availableTurns - 1
          /\ players[last.caller].gamesPlayed =
                prev.players[last.caller].gamesPlayed + 1
    /\ \A a \in Accounts :
          (~(last.op \in Plays /\ last.ok /\ last.caller = a))
              => players[a].gamesPlayed = prev.players[a].gamesPlayed
    /\ \A a \in Accounts : players[a].gamesPlayed >= prev.players[a].gamesPlayed

\* A second successful dropBall of an account.
C2_Witness ==
    /\ last.op = "dropBall" /\ last.ok
    /\ players[last.caller].gamesPlayed = 2
    /\ players[last.caller].availableTurns = 1

\* C3: a dailyCheckIn before the caller's lastCheckInTime + 86400 is rejected
\* and leaves the ledger (turns, lastCheckInTime, gamesPlayed, registry,
\* balance) as it was.
C3_CheckInRejectedInCooldown ==
    (/\ last.op = "dailyCheckIn"
     /\ now < prev.players[last.caller].lastCheckInTime + SECONDS_PER_DAY)
        => (~last.ok /\ Ledger = prev /\ events = <<>>)

\* A check-in was rejected in the last second of the cooldown.
C3_Witness ==
    /\ last.op = "dailyCheckIn" /\ ~last.ok
    /\ now = players[last.caller].lastCheckInTime + SECONDS_PER_DAY - 1

\* C4: a dailyCheckIn at or after the caller's lastCheckInTime + 86400
\* succeeds, adds exactly 3 turns, sets lastCheckInTime to the block's time and
\* leaves gamesPlayed as it was; after a second check-in the account has been
\* granted at least 6 turns (those left and those played).
C4_CheckInGrantsThree ==
    (/\ last.op = "dailyCheckIn"
     /\ now >= prev.players[last.caller].lastCheckInTime + SECONDS_PER_DAY)
        => /\ last.ok
           /\ players[last.caller].availableTurns =
                 prev.players[last.caller].availableTurns + 3
           /\ players[last.caller].lastCheckInTime = now
           /\ players[last.caller].gamesPlayed = prev.players[last.caller].gamesPlayed
           /\ prev.players[last.caller].lastCheckInTime >= StartTime
                 => players[last.caller].availableTurns
                      + players[last.caller].gamesPlayed >= 6

\* A second check-in exactly one cooldown after the first: 6 turns.
C4_Witness ==
    /\ last.op = "dailyCheckIn" /\ last.ok
    /\ prev.players[last.caller].lastCheckInTime = StartTime
    /\ now = StartTime + SECONDS_PER_DAY
    /\ prev.players[last.caller].availableTurns = 3
    /\ players[last.caller].availableTurns = 6

\* C5: a successful check-in of an account that checked in before sets a
\* lastCheckInTime at least 86400 later than the previous one (so strictly
\* later), and between check-ins nothing (no purchase, play or call of another
\* account) changes a lastCheckInTime that a check-in set.
C5_CheckInsACooldownApart ==
    /\ (/\ last.op = "dailyCheckIn" /\ last.ok
        /\ prev.players[last.caller].lastCheckInTime > 1)
          => /\ players[last.caller].lastCheckInTime
                   >= prev.players[last.caller].lastCheckInTime + SECONDS_PER_DAY
             /\ players[last.caller].lastCheckInTime
                   > prev.players[last.caller].lastCheckInTime
    /\ \A a \in Accounts :
          (/\ prev.players[a].lastCheckInTime > 1
           /\ ~(last.op = "dailyCheckIn" /\ last.ok /\ last.caller = a))
              => players[a].lastCheckInTime = prev.players[a].lastCheckInTime

\* A second check-in of an account that has bought a turn and played since
\* the first.
C5_Witness ==
    /\ last.op = "dailyCheckIn" /\ last.ok
    /\ prev.players[last.caller].lastCheckInTime = StartTime
    /\ players[last.caller].lastCheckInTime = StartTime + SECONDS_PER_DAY
    /\ players[last.caller].gamesPlayed = 1
    /\ players[last.caller].availableTurns = 6

\* C6: a buyTurns(turnCount) with turnCount > 0 and msg.value exactly
\* turnCount * TURN_PRICE succeeds, adds exactly turnCount to the caller's
\* availableTurns and exactly msg.value to the contract balance, and appends
\* the caller to the registry iff the caller had no successful check-in or
\* purchase before.
C6_ExactPurchase ==
    (/\ last.op = "buyTurns"
     /\ last.args[1] > 0
     /\ last.args[2] = last.args[1] * TURN_PRICE)
        => /\ last.ok
           /\ players[last.caller].availableTurns =
                 prev.players[last.caller].availableTurns + last.args[1]
           /\ balance = prev.balance + last.args[2]
           /\ playerAddresses =
                 IF last.caller \in prev.interacted
                 THEN prev.playerAddresses
                 ELSE Append(prev.playerAddresses, last.caller)

\* A purchase of two turns by an account that had checked in, after a first
\* purchase by another account.
C6_Witness ==
    /\ last.op = "buyTurns" /\ last.ok /\ last.args = <<2, 2 * TURN_PRICE>>
    /\ prev.players[last.caller].lastCheckInTime >= StartTime
    /\ players[last.caller].availableTurns = 5
    /\ balance = 3 * TURN_PRICE
    /\ Len(playerAddresses) = 2

\* C7: buyTurns is rejected when turnCount = 0 and when msg.value differs from
\* turnCount * TURN_PRICE (less or more), and a rejected purchase leaves the
\* ledger (turns, lastCheckInTime, registry, balance) as it was.
C7_PurchaseRejected ==
    /\ (/\ last.op = "buyTurns"
        /\ (last.args[1] = 0 \/ last.args[2] # last.args[1] * TURN_PRICE))
          => ~last.ok
    /\ (last.op = "buyTurns" /\ ~last.ok) => (Ledger = prev /\ events = <<>>)

\* An overpaid purchase was rejected after an exact one had been accepted.
C7_Witness ==
    /\ last.op = "buyTurns" /\ ~last.ok /\ last.args = <<1, TURN_PRICE + 1>>
    /\ balance = 2 * TURN_PRICE
    /\ players[last.caller].availableTurns = 2

\* C8: no address occurs twice in the registry.
C8_RegistryDistinct ==
    \A i, j \in 1..Len(playerAddresses) :
        i # j => playerAddresses[i] # playerAddresses[j]

\* An account that bought first has now checked in, next to another
\* registered account.
C8_Witness ==
    /\ last.op = "dailyCheckIn" /\ last.ok
    /\ prev.players[last.caller].lastCheckInTime = 1
    /\ Len(playerAddresses) = 2

\* C9: the registry holds exactly the accounts with a successful check-in or
\* purchase, which are those with lastCheckInTime # 0; an account is appended
\* at the end by its first successful check-in or purchase and the registry
\* changes in no other way (so getTotalPlayers never decreases); an account
\* with turns or games played is registered.
C9_RegistryAppendOnly ==
    /\ Range(playerAddresses) = interacted
    /\ \A a \in Accounts :
          a \in Range(playerAddresses) <=> players[a].lastCheckInTime # 0
    /\ IF /\ last.ok /\ last.op \in {"dailyCheckIn", "buyTurns"}
          /\ last.caller \notin prev.interacted
       THEN playerAddresses = Append(prev.playerAddresses, last.caller)
       ELSE playerAddresses = prev.playerAddresses
    /\ getTotalPlayers >= Len(prev.playerAddresses)
    /\ \A a \in Accounts :
          (players[a].availableTurns > 0 \/ players[a].gamesPlayed > 0)
              => a \in Range(playerAddresses)

\* A first purchase appended its caller behind an account that had checked in.
C9_Witness ==
    /\ last.op = "buyTurns" /\ last.ok
    /\ Len(playerAddresses) = 2
    /\ playerAddresses[2] = last.caller
    /\ players[playerAddresses[1]].lastCheckInTime >= StartTime

\* C10: getLeaderboard returns one entry for each registered address and no
\* other (as many as getTotalPlayers), each with the address's current
\* gamesPlayed, in an order in which gamesPlayed never increases; the call
\* changes nothing.
C10_LeaderboardSorted ==
    LET lb == Leaderboard IN
    /\ Len(lb) = getTotalPlayers
    /\ \A a \in Range(playerAddresses) :
          Cardinality({i \in 1..Len(lb) : lb[i].playerAddress = a}) = 1
    /\ \A i \in 1..Len(lb) :
          /\ lb[i].playerAddress \in Range(playerAddresses)
          /\ lb[i].gamesPlayed = players[lb[i].playerAddress].gamesPlayed
    /\ \A i, j \in 1..Len(lb) : i < j => lb[i].gamesPlayed >= lb[j].gamesPlayed
    /\ last.op = "getLeaderboard" => (last.ret = lb /\ Ledger = prev)

\* getLeaderboard was called with four players registered in the order of
\* increasing gamesPlayed, and returned them in another order.
C10_Witness ==
    /\ last.op = "getLeaderboard"
    /\ Len(last.ret) = 4
    /\ \A i \in 1..3 :
          players[playerAddresses[i]].gamesPlayed
              < players[playerAddresses[i + 1]].gamesPlayed
    /\ last.ret[1].playerAddress = playerAddresses[4]
    /\ last.ret[4].playerAddress = playerAddresses[1]

\* The registry slot of a registered address.
RegistryIndex(a) == CHOOSE i \in 1..Len(playerAddresses) : playerAddresses[i] = a

\* C11: in the list getLeaderboard returns, entries with equal gamesPlayed
\* appear in the order in which their addresses were registered.
C11_StableTieBreak ==
    LET lb == Leaderboard IN
    \A i, j \in 1..Len(lb) :
        (i < j /\ lb[i].gamesPlayed = lb[j].gamesPlayed)
            => RegistryIndex(lb[i].playerAddress) < RegistryIndex(lb[j].playerAddress)

\* C12: withdraw succeeds iff the caller is the owner and the contract's
\* balance is positive; a successful withdraw leaves a balance of 0, sends
\* exactly the previous balance to the owner and changes no player record, the
\* registry or the owner; a rejected one changes nothing.
C12_WithdrawByOwner ==
    last.op = "withdraw" =>
        /\ last.ok <=> (last.caller = prev.owner /\ prev.balance > 0)
        /\ last.ok =>
              /\ balance = 0
              /\ received = [prev.received EXCEPT ![prev.owner] = @ + prev.balance]
              /\ players = prev.players
              /\ playerAddresses = prev.playerAddresses
              /\ owner = prev.owner
        /\ ~last.ok => (Ledger = prev /\ events = <<>>)

\* alice, the owner after a transfer, withdrew two turns' price after the
\* deployer had withdrawn one turn's price.
C12_Witness ==
    /\ last.op = "withdraw" /\ last.ok /\ last.caller = "alice"
    /\ balance = 0
    /\ received["alice"] = 2 * TURN_PRICE
    /\ received["deployer"] = TURN_PRICE

\* C13: the owner is the deployer after construction and never the zero
\* address; transferOwnership succeeds iff the caller is the owner and the new
\* owner is not the zero address, then makes the new owner the owner, and is
\* otherwise rejected with the ledger unchanged; no other call changes the
\* owner; withdraw and transferOwnership reject every caller that is not the
\* owner (a previous owner included) and accept the owner.
C13_OwnershipTransfer ==
    /\ owner # ZeroAddress
    /\ last.op = "constructor" => owner = "deployer"
    /\ last.op = "transferOwnership" =>
          /\ last.ok <=> (last.caller = prev.owner /\ last.args[1] # ZeroAddress)
          /\ last.ok => owner = last.args[1]
          /\ ~last.ok => (owner = prev.owner /\ Ledger = prev)
    /\ last.op # "transferOwnership" => owner = prev.owner
    /\ (last.op \in {"withdraw", "transferOwnership"} /\ last.caller # prev.owner)
          => ~last.ok
    /\ (last.op = "withdraw" /\ last.caller = prev.owner /\ prev.balance > 0)
          => last.ok

\* The deployer, having made alice the owner, was refused the ownership back.
C13_Witness ==
    /\ last.op = "transferOwnership" /\ ~last.ok
    /\ last.caller = "deployer" /\ last.args = <<"deployer">>
    /\ owner = "alice"

\* C14: for every account, availableTurns + gamesPlayed = 3 x (its successful
\* check-ins) + (the turns it bought), so gamesPlayed never exceeds the turns
\* granted and bought; with one check-in and no purchase the account has
\* 3 - gamesPlayed turns, and a play is rejected exactly when no turn is left
\* (or, for dropBall, when the input proof is refused).
C14_TurnsAccounted ==
    /\ \A a \in Accounts :
          /\ players[a].availableTurns + players[a].gamesPlayed
                = 3 * checkIns[a] + bought[a]
          /\ players[a].gamesPlayed <= 3 * checkIns[a] + bought[a]
          /\ (checkIns[a] = 1 /\ bought[a] = 0) =>
                /\ players[a].gamesPlayed <= 3
                /\ players[a].availableTurns = 3 - players[a].gamesPlayed
    /\ (last.op \in Plays /\ prev.players[last.caller].availableTurns = 0)
          => ~last.ok
    /\ (last.op = "playTurn" /\ prev.players[last.caller].availableTurns > 0)
          => last.ok
    /\ (last.op = "dropBall" /\ prev.players[last.caller].availableTurns > 0)
          => (last.ok <=> last.args[2])

\* After one check-in and three plays (turns 3 -> 0, gamesPlayed 0 -> 3) the
\* fourth playTurn was rejected.
C14_Witness ==
    /\ last.op = "playTurn" /\ ~last.ok
    /\ checkIns[last.caller] = 1 /\ bought[last.caller] = 0
    /\ players[last.caller].availableTurns = 0
    /\ players[last.caller].gamesPlayed = 3

\* C15: an address with no successful check-in or purchase so far, whatever
\* the other accounts have done, has getPlayerInfo = (0, 0, 0) and canCheckIn
\* = true, and its dailyCheckIn succeeds; right after deployment the registry
\* and the leaderboard are empty.
C15_UnseenAddress ==
    /\ \A a \in Accounts \ interacted :
          /\ getPlayerInfo(a) = <<0, 0, 0>>
          /\ canCheckIn(a)
    /\ (last.op = "dailyCheckIn" /\ last.caller \notin prev.interacted) => last.ok
    /\ last.op = "constructor" =>
          (playerAddresses = <<>> /\ getTotalPlayers = 0 /\ Leaderboard = <<>>)

\* alice's first call, a check-in in the last second of the deployer's
\* cooldown, succeeded after the deployer had checked in, bought and played.
C15_Witness ==
    /\ last.op = "dailyCheckIn" /\ last.ok /\ last.caller = "alice"
    /\ prev.interacted = {"deployer"}
    /\ now = StartTime + SECONDS_PER_DAY - 1
    /\ players["deployer"].lastCheckInTime = StartTime
    /\ players["deployer"].gamesPlayed = 2
    /\ bought["deployer"] = 1

\* C16: canCheckIn(a) is true exactly when a dailyCheckIn by a in the same
\* block succeeds; it is false right after a's successful check-in and true
\* once 86400 seconds have passed since it.
C16_CanCheckInAgrees ==
    /\ [][last'.op = "dailyCheckIn"
             => (last'.ok <=> canCheckIn(last'.caller))]_vars
    /\ []((last.op = "dailyCheckIn" /\ last.ok) => ~canCheckIn(last.caller))
    /\ [](\A a \in Accounts :
             (players[a].lastCheckInTime >= StartTime
                 /\ now >= players[a].lastCheckInTime + 86400) => canCheckIn(a))

\* A second check-in succeeded exactly 86400 seconds after the first, and
\* canCheckIn is false again.
C16_Witness ==
    /\ last.op = "dailyCheckIn" /\ last.ok
    /\ prev.players[last.caller].lastCheckInTime = StartTime
    /\ now = StartTime + 86400
    /\ ~canCheckIn(last.caller)

\* C17 as stated: a call of a view function leaves the ledger as it was, and
\* returns what the previous call of the same function with the same argument
\* returned when no call has written the ledger between the two.
C17_QueriesRepeat ==
    /\ last.op \in Queries => (Ledger = prev /\ events = <<>>)
    /\ (last.op \in Queries /\ asked.q.op = last.op /\ asked.q.args = last.args)
          => last.ret = asked.q.ret

\* C17, amended: a call of a view function leaves the ledger as it was, and
\* returns what the previous call of the same function with the same argument
\* returned when no call has written the ledger between the two and, for
\* canCheckIn, both calls are made at the same block time.
C17_QueriesRepeatAtSameTime ==
    /\ last.op \in Queries => (Ledger = prev /\ events = <<>>)
    /\ (/\ last.op \in Queries /\ asked.q.op = last.op /\ asked.q.args = last.args
        /\ last.op = "canCheckIn" => asked.at = now)
          => last.ret = asked.q.ret

\* canCheckIn(alice) was asked twice at the same block time during alice's
\* cooldown, with nothing written between, and answered false both times.
C17_Witness ==
    /\ last.op = "canCheckIn" /\ last.args = <<"alice">> /\ last.ret = <<FALSE>>
    /\ asked.q.op = "canCheckIn" /\ asked.q.args = <<"alice">>
    /\ asked.at = now

C19_OnlyAccountAndContractAllowed ==
    /\ \A a \in Accounts : acl[a] \subseteq {a, ThisContract}
    /\ (last.op = "dropBall" /\ last.ok)
          => acl[last.caller] = {last.caller, ThisContract}
    /\ \A a \in Accounts :
          ~(last.op = "dropBall" /\ last.ok /\ last.caller = a)
              => acl[a] = prev.acl[a]

\* alice's dropBall succeeded after the deployer's; each total is allowed to
\* its own account and the contract.
C19_Witness ==
    /\ last.op = "dropBall" /\ last.ok /\ last.caller = "alice"
    /\ acl["alice"] = {"alice", ThisContract}
    /\ acl["deployer"] = {"deployer", ThisContract}
    /\ owner = "alice"

\* C20: a successful dailyCheckIn emits exactly CheckedIn(caller, 3, block
\* time); a successful buyTurns exactly TurnsPurchased(caller, turnCount,
\* msg.value); a successful playTurn or dropBall exactly GamePlayed(caller,
\* availableTurns after the play) followed by ScoreUpdated(caller, gamesPlayed
\* after the play); a rejected call emits nothing.
C20_EventsEmitted ==
    /\ (last.op = "dailyCheckIn" /\ last.ok) =>
          events = <<[name |-> "CheckedIn", player |-> last.caller,
                      turnsGranted |-> 3, timestamp |-> now]>>
    /\ (last.op = "buyTurns" /\ last.ok) =>
          events = <<[name |-> "TurnsPurchased", player |-> last.caller,
                      turnsBought |-> last.args[1], amountPaid |-> last.args[2]]>>
    /\ (last.op \in Plays /\ last.ok) =>
          events = <<[name |-> "GamePlayed", player |-> last.caller,
                      turnsRemaining |-> players[last.caller].availableTurns],
                     [name |-> "ScoreUpdated", player |-> last.caller,
                      gamesPlayed |-> players[last.caller].gamesPlayed]>>
    /\ ~last.ok => events = <<>>

\* A playTurn with two turns left after it and one game played.
C20_Witness ==
    /\ last.op = "playTurn" /\ last.ok
    /\ Len(events) = 2
    /\ events[1].name = "GamePlayed" /\ events[1].turnsRemaining = 2
    /\ events[2].name = "ScoreUpdated" /\ events[2].gamesPlayed = 1

\* C21: a successful buyTurns sets the caller's lastCheckInTime to the sentinel
\* 1 when it was 0 and leaves it unchanged otherwise, so whether the caller may
\* check in at a given time is the same before and after the purchase of an
\* account with a check-in; it adds exactly turnCount turns and counts and emits
\* no check-in.
C21_PurchaseKeepsCooldown ==
    (last.op = "buyTurns" /\ last.ok) =>
        LET before == prev.players[last.caller]
            after == players[last.caller]
        IN /\ after.lastCheckInTime =
                  IF before.lastCheckInTime = 0 THEN 1 ELSE before.lastCheckInTime
           /\ before.lastCheckInTime > 1 =>
                  \A t \in Times :
                      (t >= after.lastCheckInTime + SECONDS_PER_DAY)
                          <=> (t >= before.lastCheckInTime + SECONDS_PER_DAY)
           /\ after.availableTurns = before.availableTurns + last.args[1]
           /\ checkIns = prev.checkIns
           /\ \A i \in DOMAIN events : events[i].name # "CheckedIn"

\* A purchase made while the buyer's check-in cooldown is running.
C21_Witness ==
    /\ last.op = "buyTurns"
    /\ last.ok
    /\ prev.players[last.caller].lastCheckInTime > 1
    /\ now < prev.players[last.caller].lastCheckInTime + SECONDS_PER_DAY
    /\ ~canCheckIn(last.caller)

\* C22: an account with purchases and no check-in has lastCheckInTime = 1 and
\* canCheckIn is true for it; its dailyCheckIn succeeds, adds DAILY_FREE_TURNS
\* to the purchased turns, sets lastCheckInTime to the block time and leaves
\* the registry, which holds the account once, as it was.
C22_BuyerChecksInAtOnce ==
    /\ \A a \in Accounts :
          (a \in interacted /\ checkIns[a] = 0) =>
              /\ players[a].lastCheckInTime = 1
              /\ canCheckIn(a)
    /\ (last.op = "dailyCheckIn" /\ prev.players[last.caller].lastCheckInTime = 1) =>
          LET before == prev.players[last.caller]
              after == players[last.caller]
          IN /\ last.ok
             /\ after.availableTurns = before.availableTurns + DAILY_FREE_TURNS
             /\ after.lastCheckInTime = now
             /\ playerAddresses = prev.playerAddresses
             /\ Cardinality({i \in DOMAIN playerAddresses :
                                playerAddresses[i] = last.caller}) = 1

\* The first check-in of an account that holds purchased turns, made in the
\* block of the purchase.
C22_Witness ==
    /\ last.op = "dailyCheckIn"
    /\ last.ok
    /\ prev.players[last.caller].lastCheckInTime = 1
    /\ prev.bought[last.caller] > 0
    /\ now = StartTime
    /\ players[last.caller].availableTurns =
           prev.bought[last.caller] + DAILY_FREE_TURNS

\* C23: only a successful buyTurns (by turnCount * TURN_PRICE) and a successful
\* withdraw (to 0, the whole balance going to the owner) change the balance;
\* every other call, and every rejected call, leaves it as it was.  So the
\* balance is the price of all turns bought less all that was withdrawn, and
\* each withdrawal took the price of all turns bought until then.
C23_BalanceIsUnwithdrawnSales ==
    /\ balance =
          IF last.op = "buyTurns" /\ last.ok
          THEN prev.balance + last.args[1] * TURN_PRICE
          ELSE IF last.op = "withdraw" /\ last.ok THEN 0 ELSE prev.balance
    /\ (last.op = "withdraw" /\ last.ok) =>
          /\ received[prev.owner] = prev.received[prev.owner] + prev.balance
          /\ SumOver(Accounts, received) = TURN_PRICE * SumOver(Accounts, bought)
    /\ getBalance =
          TURN_PRICE * SumOver(Accounts, bought) - SumOver(Accounts, received)

\* A purchase after a withdrawal and a play: the balance is the price of that
\* purchase alone.
C23_Witness ==
    /\ last.op = "buyTurns"
    /\ last.ok
    /\ SumOver(Accounts, received) > 0
    /\ \E a \in Accounts : players[a].gamesPlayed > 0
    /\ balance = last.args[1] * TURN_PRICE
    /\ balance < TURN_PRICE * SumOver(Accounts, bought)

\* C24: a dailyCheckIn, buyTurns, playTurn or dropBall by one account, accepted
\* or rejected, leaves every other account's record and ciphertext permissions
\* as they were, keeps every registered address at its place in the registry
\* and can add to the registry only the caller, at the end; it never lowers the
\* balance, pays nothing out and leaves the owner as it was.
C24_OtherAccountsUntouched ==
    last.op \in {"dailyCheckIn", "buyTurns", "playTurn", "dropBall"} =>
        /\ \A b \in Accounts \ {last.caller} :
              /\ players[b] = prev.players[b]
              /\ acl[b] = prev.acl[b]
        /\ \A i \in DOMAIN prev.playerAddresses :
              /\ i \in DOMAIN playerAddresses
              /\ playerAddresses[i] = prev.playerAddresses[i]
        /\ \/ playerAddresses = prev.playerAddresses
           \/ playerAddresses = Append(prev.playerAddresses, last.caller)
        /\ balance >= prev.balance
        /\ received = prev.received
        /\ owner = prev.owner

\* A first purchase by an account while another account is registered and
\* holds turns: the caller is appended behind it.
C24_Witness ==
    /\ last.op = "buyTurns"
    /\ last.ok
    /\ Len(playerAddresses) = 2
    /\ Len(prev.playerAddresses) = 1
    /\ playerAddresses[2] = last.caller
    /\ playerAddresses[1] # last.caller
    /\ players[playerAddresses[1]].availableTurns > 0
    /\ balance > prev.balance

\* The calls of useContract that send a transaction.
Mutating == {"dailyCheckIn", "buyTurns", "playGame"}

\* What the last returned call reports: success, and success after its own
\* transaction was confirmed by the ledger.
ReportsSuccess ==
    IF done.fn = "playGame" THEN done.ret # Null ELSE done.ret

ReportedAfterConfirmation ==
    /\ (done.fn \in {"dailyCheckIn", "buyTurns"} \/ (done.fn = "playGame" /\ hook.contract)) =>
          /\ ReportsSuccess <=> done.confirmed
          /\ done.confirmed => done.setLoading
    /\ (done.fn = "dailyCheckIn" /\ done.confirmed) => checkIns[Signer] > 0
    /\ (done.fn = "buyTurns" /\ done.confirmed) => bought[Signer] > 0
    /\ (done.fn = "playGame" /\ done.confirmed) => players[Signer].gamesPlayed > 0

C26_BallOnlyForGameId ==
    /\ (canvas.ball \/ canvas.isPlaying) => canvas.currentGameId # Null
    /\ audit.dropped # Null
    /\ audit.reported # Null

\* C27: for one client at most one play transaction is in flight (awaiting
\* the wallet or the ledger) at a time: a second Drop Ball activation during
\* an earlier playGame call does not submit a second playTurn.
PlaysInFlight ==
    {i \in CallIds : calls[i].fn = "playGame" /\ calls[i].pc \in {"wallet", "sent"}}

C27_OnePlayInFlight == Cardinality(PlaysInFlight) <= 1

\* C28: after an initialisation that ended in fallback mode with the contract
\* adapter ready (authentication failed or was declined), a playGame of a
\* signer with availableTurns > 0 passes the client-side checks:
\* validateGameAttempt never refuses it.
C28_FallbackCanPlay ==
    (hook.isInitialized /\ hook.contract /\ hook.fallbackMode)
        => audit.refused = Undefined

\* C29: for one authenticated session validateGameAttempt admits at most
\* MAX_GAMES_PER_MINUTE plays within any RATE_LIMIT_WINDOW and any two
\* admitted plays are at least MIN_TIME_BETWEEN_GAMES apart; an address that
\* has no session is never admitted.
C29_AdmissionsRateLimited ==
    LET admitted == audit.admitted IN
    /\ \A i, j \in DOMAIN admitted :
          i < j => admitted[j] - admitted[i] >= MIN_TIME_BETWEEN_GAMES
    /\ \A i \in DOMAIN admitted :
          Cardinality({j \in DOMAIN admitted :
                          /\ i <= j
                          /\ admitted[j] - admitted[i] < RATE_LIMIT_WINDOW})
              <= MAX_GAMES_PER_MINUTE
    /\ admitted # <<>> => security.isAuthenticated

\* C30: validateNonce accepts each nonce at most once: a call that returns
\* true is never for a nonce that an earlier call had accepted.
C30_NonceAcceptedOnce == validated.ret => ~validated.replay

====
